---- MODULE Spec2Model ----
(***************************************************************************)
(* Procedural audio engine of the PostSovietTrainView component and its    *)
(* host App: the Web Audio context and its suspend/resume requests, the    *)
(* bus gains, the radio tuning effect, the rain effect, the music          *)
(* sequencer, the wheel-clack rhythm generator and the speed logic.        *)
(*                                                                         *)
(* Units.  Gains are integers in units of 1/6000 (0.05 is 300).            *)
(* Frequencies of the dial are in tenths of a MHz (96.0 is 960), the       *)
(* radio volume in tenths (0.5 is 5), filter frequencies in Hz, delays in  *)
(* milliseconds, the speed in km/h.  A delay that the code obtains by a    *)
(* division is kept as the fraction [n, d] it is computed from.            *)
(*                                                                         *)
(* Time.  ticks counts the firings of the sequencer interval (one every    *)
(* BeatMs of wall-clock time); a note's cleanup timeout is kept with its   *)
(* absolute due time and fires between the two interval firings that       *)
(* enclose it.                                                             *)
(***************************************************************************)
EXTENDS Integers, Sequences, FiniteSets

VARIABLES
    phase,            \* "constructed" | "mounted" | "unmounted" (React lifecycle)
    audioEnabled,     \* prop audioEnabled (App.isAudioEnabled)
    weather,          \* prop weather
    radioOn,          \* prop radioOn
    radioFreq,        \* prop radioFreq, tenths of MHz
    radioVol,         \* prop radioVol, tenths
    allowed,          \* the platform's autoplay policy permits playback
    audioCtx,         \* audioCtxRef: "none" (null) or the context's state attribute
    currentTime,      \* ctx.currentTime, the render clock, ms
    pendingOps,       \* resume()/suspend() requests issued and not yet settled
    masterGain,       \* Master bus gain
    rumbleGain,       \* Rumble bus gain
    rainGain,         \* Rain bus gain (value or automation target)
    radioMasterGain,  \* RadioMaster bus gain (value or automation target)
    radioStaticGain,  \* RadioStatic bus gain (value or automation target)
    radioMusicGain,   \* RadioMusic bus gain (value or automation target)
    radioFilter,      \* radio bandpass centre frequency (value or target), Hz
    dropout,          \* the last tuning update took the dropout (halving) branch
    sequencerInterval,\* "null" | "active" | "cleared"
    ticks,            \* firings of the sequencer interval so far
    step,             \* sequencer step
    bar,              \* sequencer bar
    emitted,          \* voices created by the latest interval firing, in order
    noteTimers,       \* pending playNote cleanup timeouts: [kind, due, stopAt]
    timeoutId,        \* the rhythm generator's pending timeout, or NoTimeout
    hits,             \* hits created by the latest playClack firing, in order
    pendingClacks,    \* playClack timeouts set and neither fired nor cleared
    currentSpeed,     \* currentSpeedRef
    targetSpeed       \* targetSpeedRef

hostVars == <<audioEnabled, weather, radioOn, radioFreq, radioVol>>
ctxVars == <<audioCtx, pendingOps>>
fixedBusVars == <<masterGain, rumbleGain>>
radioVars == <<radioMasterGain, radioStaticGain, radioMusicGain, radioFilter, dropout>>
seqVars == <<sequencerInterval, ticks, step, bar, emitted, noteTimers>>
clackVars == <<timeoutId, hits, pendingClacks>>
speedVars == <<currentSpeed, targetSpeed>>
vars == <<phase, hostVars, allowed, ctxVars, currentTime, fixedBusVars, rainGain, radioVars,
          seqVars, clackVars, speedVars>>

(***************************************************************************)
(* Bounds of the model.                                                    *)
(***************************************************************************)
MaxPending == 1
MaxTicks == 17
FrameInertia == 4
Overshoot == 30
MaxClockedTicks == 7

(***************************************************************************)
(* Program constants.                                                      *)
(***************************************************************************)
DialMin == 880
DialMax == 1080
InitialFreq == 945
InitialVol == 5
MusicStation == 960
BuzzerStation == 1045
CaptureRange == 15
FilterBase == 1000
DriftPerTenth == 50
BeatMs == 600
ReferenceSpeed == 60
InitialSpeed == 60
SlowPollMs == 1000
BaseDelayMs == 1600
HitOffsetMs == 140
CleanupTailMs == 1000

Weathers == {"clear", "cloudy", "rain", "snow"}
Dial == DialMin..DialMax
Volumes == 1..10
Stations == <<MusicStation, BuzzerStation>>
Limits == {40, 60, 80, 100, 120}
Jitters == {0, 199}
NoTimeout == [pending |-> FALSE, n |-> 0, d |-> 1, jitter |-> 0]

\* the gain n/d in the model's unit
Gain(n, d) == (n * 6000) \div d
Unity == Gain(1, 1)

Abs(x) == IF x < 0 THEN -x ELSE x
Min(a, b) == IF a < b THEN a ELSE b
Max(a, b) == IF a > b THEN a ELSE b

(***************************************************************************)
(* Radio tuning effect.                                                    *)
(***************************************************************************)
\* stations.forEach: the smallest distance to a station, starting from 100 MHz
RECURSIVE BestDiffFrom(_, _, _)
BestDiffFrom(f, i, best) ==
    IF i > Len(Stations) THEN best
    ELSE LET diff == Abs(f - Stations[i])
         IN BestDiffFrom(f, i + 1, IF diff < best THEN diff ELSE best)

BestStationDiff(f) == BestDiffFrom(f, 1, 1000)

\* faulty variant: the fade is inverted (the "1 -" is missing)
BaseQualityInverted(diff) ==
    IF diff < CaptureRange
    THEN Max(0, (diff * Unity) \div CaptureRange)
    ELSE 0

\* signalQuality before the dropout draw
BaseQuality(diff) ==
    IF diff < CaptureRange
    THEN Max(0, Unity - (diff * Unity) \div CaptureRange)
    ELSE 0

\* faulty variant: the dropout draw ignores the strength of the signal
DropoutAlways(diff, rnd) == diff < CaptureRange /\ rnd

\* the dropout branch is taken: weak signal and Math.random() > 0.9
DropoutTaken(diff, rnd) ==
    diff < CaptureRange /\ BaseQuality(diff) < Gain(8, 10) /\ rnd

\* faulty variant: the dropout quarters the quality
SignalQualityQuartered(diff, rnd) ==
    IF DropoutTaken(diff, rnd) THEN BaseQuality(diff) \div 4 ELSE BaseQuality(diff)

\* signalQuality after the dropout draw
SignalQuality(diff, rnd) ==
    IF DropoutTaken(diff, rnd) THEN BaseQuality(diff) \div 2 ELSE BaseQuality(diff)

\* faulty variant: the static floor is missing
StaticVolNoFloor(q) == ((Unity - q) * 4) \div 10

StaticVol(q) == ((Unity - q) * 4) \div 10 + Gain(5, 100)

MusicVol(q) == q

\* faulty variant: the volume is taken in tenths without scaling
MasterTargetUnscaled(on, vol) == IF on THEN Gain(vol, 1) ELSE 0

\* masterTarget = radioOn ? radioVol : 0
MasterTarget(on, vol) == IF on THEN Gain(vol, 10) ELSE 0

\* faulty variant: the downward drift is half the upward drift
FilterTargetLopsided(diff, up) ==
    FilterBase + (IF up THEN diff * DriftPerTenth ELSE -((diff * DriftPerTenth) \div 2))

\* targetFreq = 1000 + (bestStationDiff * 500) * (Math.random() > 0.5 ? 1 : -1)
FilterTarget(diff, up) == FilterBase + (diff * DriftPerTenth) * (IF up THEN 1 ELSE -1)

(***************************************************************************)
(* Rain effect.                                                            *)
(***************************************************************************)
\* faulty variant: rain and snow are swapped
RainTargetSwapped(w) ==
    IF w = "snow" THEN Gain(35, 100)
    ELSE IF w = "rain" THEN Gain(5, 100) ELSE 0

\* targetVol = weather === 'rain' ? 0.35 : (weather === 'snow' ? 0.05 : 0)
RainTarget(w) ==
    IF w = "rain" THEN Gain(35, 100)
    ELSE IF w = "snow" THEN Gain(5, 100) ELSE 0

(***************************************************************************)
(* Rhythm generator (playClack).                                           *)
(***************************************************************************)
\* speedRatio = currentSpeedRef.current / 60, as a fraction
SpeedRatio(speed) == [n |-> speed, d |-> ReferenceSpeed]

\* faulty variant: the threshold is 0.01
TooSlowHundredth(r) == 100 * r.n < r.d

\* speedRatio < 0.1
TooSlow(r) == 10 * r.n < r.d

\* faulty variant: the delay is multiplied by the ratio
MulByRatio(ms, r) == [n |-> ms * r.n, d |-> r.d]

\* ms / r, as a fraction in ms
DivByRatio(ms, r) == [n |-> ms * r.d, d |-> r.n]

\* volScale = Math.min(1.0, 0.2 + speedRatio * 0.3)
VolScale(r) == Min(Unity, Gain(2, 10) + (3 * Gain(r.n, r.d)) \div 10)

\* createHit(time, vol): the hit's start as an offset from ctx.currentTime; its
\* gain starts at start, ramps to vol, then to floor; the source is stopped
\* stop ms after its start; disconnects: the code disconnects the voice itself
CreateHit(offset, vol) ==
    [at |-> offset, vol |-> vol, start |-> 0, floor |-> Gain(1, 100),
     stop |-> 150, disconnects |-> FALSE]

\* the two hits of one firing
HitPair(speed) ==
    LET r == SpeedRatio(speed)
    IN <<CreateHit([n |-> 0, d |-> 1], (4 * VolScale(r)) \div 10),
         CreateHit(DivByRatio(HitOffsetMs, r), (3 * VolScale(r)) \div 10)>>

\* setTimeout(playClack, 1000)
SlowPoll == [pending |-> TRUE, n |-> SlowPollMs, d |-> 1, jitter |-> 0]

\* faulty variant: the delay ignores the speed
NextDelayFixed(speed, jit) ==
    [pending |-> TRUE, n |-> BaseDelayMs, d |-> 1, jitter |-> jit]

\* setTimeout(playClack, baseDelay / speedRatio + Math.random() * 200)
NextDelay(speed, jit) ==
    LET f == DivByRatio(BaseDelayMs, SpeedRatio(speed))
    IN [pending |-> TRUE, n |-> f.n, d |-> f.d, jitter |-> jit]

\* the early return of playClack: no context, no master or context not running
ClackInert(c) == c # "running"

\* playClack() called with the context in state c
PlayClack(c) ==
    IF ClackInert(c)
    THEN /\ timeoutId' = NoTimeout
         /\ hits' = <<>>
    ELSE IF TooSlow(SpeedRatio(currentSpeed))
    THEN /\ timeoutId' = SlowPoll
         /\ hits' = <<>>
    ELSE /\ \E jit \in Jitters : timeoutId' = NextDelay(currentSpeed, jit)
         /\ hits' = HitPair(currentSpeed)

\* the number of timeouts the timeout record t stands for
Scheduled(t) == IF t.pending THEN 1 ELSE 0

\* faulty variant: the cleanup forgets clearTimeout
ClearClackForgets == UNCHANGED clackVars

\* the rhythm effect's cleanup: clearTimeout(timeoutId)
ClearClack == /\ timeoutId' = NoTimeout
              /\ pendingClacks' = pendingClacks - Scheduled(timeoutId)
              /\ UNCHANGED hits

\* the rhythm effect's body: playClack() called once by the effect
StartClack(c) == /\ PlayClack(c)
                 /\ pendingClacks' = pendingClacks + Scheduled(timeoutId')

(***************************************************************************)
(* Audio init effect, radio effect and rain effect as parts of a commit.   *)
(***************************************************************************)
\* the state of a context just constructed: running only where the policy allows
NewContextStates == IF allowed THEN {"suspended", "running"} ELSE {"suspended"}

\* faulty variant: every enabling commit builds the graph anew
BuildsOnEnable == audioEnabled'

\* the graph is built by this commit
Builds == audioEnabled' /\ audioCtx = "none"

\* the guard of the resume() call of the audio init effect
InitResumes(c) == c = "suspended"

\* the guard of the suspend() call of the audio init effect
InitSuspends(c) == c = "running"

\* startProceduralRadio: step = 0, bar = 0, setInterval
StartProceduralRadio ==
    /\ sequencerInterval' = "active"
    /\ ticks' = 0
    /\ step' = 0
    /\ bar' = 0
    /\ emitted' = <<>>
    /\ noteTimers' = {}

\* useEffect(..., [audioEnabled]) of the audio logic, run for audioEnabled'
AudioInitEffect ==
    /\ IF audioEnabled'
       THEN \E s0 \in NewContextStates :
              LET c1 == IF audioCtx = "none" THEN s0 ELSE audioCtx
              IN /\ audioCtx' = c1
                 /\ pendingOps' = IF InitResumes(c1)
                                  THEN Append(pendingOps, "resume")
                                  ELSE pendingOps
       ELSE /\ audioCtx' = audioCtx
            /\ pendingOps' = IF InitSuspends(audioCtx)
                             THEN Append(pendingOps, "suspend")
                             ELSE pendingOps
    /\ Len(pendingOps') <= MaxPending
    /\ IF Builds
       THEN /\ masterGain' = Gain(5, 10)
            /\ rumbleGain' = Gain(3, 10)
            /\ StartProceduralRadio
       ELSE UNCHANGED <<fixedBusVars, seqVars>>

\* the radio effect, run after the audio init effect of the same commit
RadioEffect ==
    IF audioCtx' = "none"
    THEN UNCHANGED radioVars
    ELSE \E rnd \in BOOLEAN, up \in BOOLEAN :
           LET diff == BestStationDiff(radioFreq')
               q == SignalQuality(diff, rnd)
           IN /\ radioMasterGain' = MasterTarget(radioOn', radioVol')
              /\ radioStaticGain' = StaticVol(q)
              /\ radioMusicGain' = MusicVol(q)
              /\ radioFilter' = FilterTarget(diff, up)
              /\ dropout' = DropoutTaken(diff, rnd)

\* the rain effect, run after the audio init effect of the same commit
RainEffect ==
    IF audioCtx' = "none"
    THEN UNCHANGED rainGain
    ELSE rainGain' = RainTarget(weather')

(***************************************************************************)
(* Initial state: the component is constructed with the App's initial      *)
(* props, every ref holds its useRef() value, no effect has run.           *)
(***************************************************************************)
InitAt(speed) ==
    /\ phase = "constructed"
    /\ audioEnabled = TRUE
    /\ weather = "clear"
    /\ radioOn = FALSE
    /\ radioFreq = InitialFreq
    /\ radioVol = InitialVol
    /\ allowed \in BOOLEAN
    /\ audioCtx = "none"
    /\ currentTime = 0
    /\ pendingOps = <<>>
    /\ masterGain = 0
    /\ rumbleGain = 0
    /\ rainGain = 0
    /\ radioMasterGain = 0
    /\ radioStaticGain = 0
    /\ radioMusicGain = 0
    /\ radioFilter = 0
    /\ dropout = FALSE
    /\ sequencerInterval = "null"
    /\ ticks = 0
    /\ step = 0
    /\ bar = 0
    /\ emitted = <<>>
    /\ noteTimers = {}
    /\ timeoutId = NoTimeout
    /\ hits = <<>>
    /\ pendingClacks = 0
    /\ currentSpeed = speed
    /\ targetSpeed = InitialSpeed

Init == InitAt(InitialSpeed)

(***************************************************************************)
(* Commits.                                                                *)
(***************************************************************************)
\* first commit: every effect runs, in the order it is declared
Mount ==
    /\ phase = "constructed"
    /\ phase' = "mounted"
    /\ UNCHANGED <<hostVars, allowed, currentTime, speedVars>>
    /\ AudioInitEffect
    /\ RadioEffect
    /\ RainEffect
    /\ IF audioEnabled' THEN StartClack(audioCtx') ELSE UNCHANGED clackVars

\* the host toggles isAudioEnabled: the effects that depend on audioEnabled re-run
SetAudioEnabled ==
    /\ phase = "mounted"
    /\ audioEnabled' = ~audioEnabled
    /\ UNCHANGED <<phase, weather, radioOn, radioFreq, radioVol, allowed,
                   currentTime, speedVars>>
    /\ AudioInitEffect
    /\ RadioEffect
    /\ IF Builds THEN rainGain' = 0 ELSE UNCHANGED rainGain
    /\ IF audioEnabled' THEN StartClack(audioCtx') ELSE ClearClack

\* the host changes the weather: the rain effect re-runs
SetWeather ==
    /\ phase = "mounted"
    /\ \E w \in Weathers \ {weather} : weather' = w
    /\ UNCHANGED <<phase, audioEnabled, radioOn, radioFreq, radioVol, allowed,
                   currentTime, ctxVars, fixedBusVars, radioVars, seqVars,
                   clackVars, speedVars>>
    /\ RainEffect

\* faulty variant: the radio effect also resets the rain bus
RadioCommitResetsRain ==
    /\ UNCHANGED <<phase, audioEnabled, weather, allowed, currentTime, ctxVars,
                   fixedBusVars, seqVars, clackVars, speedVars>>
    /\ rainGain' = 0
    /\ RadioEffect

\* a radio prop changes: the radio effect re-runs
RadioCommit ==
    /\ UNCHANGED <<phase, audioEnabled, weather, allowed, currentTime, ctxVars,
                   fixedBusVars, rainGain, seqVars, clackVars, speedVars>>
    /\ RadioEffect

SetRadioOn ==
    /\ phase = "mounted"
    /\ radioOn' = ~radioOn
    /\ UNCHANGED <<radioFreq, radioVol>>
    /\ RadioCommit

SetRadioFreq(F) ==
    /\ phase = "mounted"
    /\ \E f \in F \ {radioFreq} : radioFreq' = f
    /\ UNCHANGED <<radioOn, radioVol>>
    /\ RadioCommit

SetRadioVol(V) ==
    /\ phase = "mounted"
    /\ \E v \in V \ {radioVol} : radioVol' = v
    /\ UNCHANGED <<radioOn, radioFreq>>
    /\ RadioCommit

(***************************************************************************)
(* Window events and the platform.                                         *)
(***************************************************************************)
\* the guard of unlockAudio
UnlockResumes(c) == c = "suspended"

\* a click or key press reaches the window listener unlockAudio
UnlockAudio ==
    /\ phase = "mounted"
    /\ allowed' = TRUE
    /\ pendingOps' = IF UnlockResumes(audioCtx)
                     THEN Append(pendingOps, "resume")
                     ELSE pendingOps
    /\ Len(pendingOps') <= MaxPending
    /\ UNCHANGED <<phase, hostVars, audioCtx, currentTime, fixedBusVars,
                   rainGain, radioVars, seqVars, clackVars, speedVars>>

\* the state a settled request leaves the context in
Settled(op, c) ==
    IF op = "suspend" THEN "suspended"
    ELSE IF allowed THEN "running" ELSE c

\* the platform settles the oldest pending request
SettleOp ==
    /\ pendingOps # <<>>
    /\ audioCtx' = Settled(Head(pendingOps), audioCtx)
    /\ pendingOps' = Tail(pendingOps)
    /\ UNCHANGED <<phase, hostVars, allowed, currentTime, fixedBusVars,
                   rainGain, radioVars, seqVars, clackVars, speedVars>>

(***************************************************************************)
(* Music sequencer.                                                        *)
(***************************************************************************)
\* faulty variant: every note is sent to the reverb
PlayNoteAllWet(kind, dur, vol, isBass) ==
    [kind |-> kind, dur |-> dur, vol |-> vol, reverb |-> TRUE,
     start |-> 0, floor |-> Gain(1, 1000), stop |-> dur + 100, disconnects |-> TRUE]

\* A voice: its gain starts at start, goes to vol and then to floor; its source
\* ends stop ms after its creation; disconnects tells whether the code sets a
\* timeout that disconnects it from the graph.

\* playNote(freq, type, dur, vol, isBass): the voice it creates
PlayNote(kind, dur, vol, isBass) ==
    [kind |-> kind, dur |-> dur, vol |-> vol, reverb |-> ~isBass,
     start |-> 0, floor |-> Gain(1, 1000), stop |-> dur + 100, disconnects |-> TRUE]

\* playNoise(dur): the voice it creates, a one-shot buffer behind a constant gain
PlayNoise(kind, dur) ==
    [kind |-> kind, dur |-> dur, vol |-> Gain(15, 100), reverb |-> FALSE,
     start |-> Gain(15, 100), floor |-> Gain(15, 100), stop |-> dur,
     disconnects |-> FALSE]

\* the kick voice built inline by the interval callback
Kick ==
    [kind |-> "kick", dur |-> 500, vol |-> Gain(4, 10), reverb |-> FALSE,
     start |-> Gain(4, 10), floor |-> Gain(1, 100), stop |-> 500,
     disconnects |-> FALSE]

\* faulty variant: the bass follows the kick
BassDueEvery4(s) == s % 4 = 0

\* the bass branch of the interval callback
BassDue(s) == s % 8 = 0

\* faulty variant: the kick follows the bass (step % 8)
VoicesKickEvery8(s, melody) ==
    (IF BassDue(s) THEN <<PlayNote("bass", 8 * BeatMs, Gain(3, 10), TRUE)>> ELSE <<>>)
    \o (IF melody THEN <<PlayNote("melody", BeatMs, Gain(5, 100), FALSE)>> ELSE <<>>)
    \o (IF s % 8 = 0 THEN <<Kick>>
        ELSE IF s % 4 = 2 THEN <<PlayNoise("snare", 100)>> ELSE <<>>)
    \o (IF s % 2 = 0 THEN <<PlayNoise("hat", 20)>> ELSE <<>>)

\* the voices one executed interval callback creates at step s, in order
Voices(s, melody) ==
    (IF BassDue(s) THEN <<PlayNote("bass", 8 * BeatMs, Gain(3, 10), TRUE)>> ELSE <<>>)
    \o (IF melody THEN <<PlayNote("melody", BeatMs, Gain(5, 100), FALSE)>> ELSE <<>>)
    \o (IF s % 4 = 0 THEN <<Kick>>
        ELSE IF s % 4 = 2 THEN <<PlayNoise("snare", 100)>> ELSE <<>>)
    \o (IF s % 2 = 0 THEN <<PlayNoise("hat", 20)>> ELSE <<>>)

\* the cleanup timeouts playNote sets for the voices vs created at wall-clock
\* time now and render time t: due on the wall clock, with the render time
\* stopAt that osc.stop(t + dur + 0.1) was given
CleanupTimers(vs, now, t) ==
    {[kind |-> vs[i].kind, due |-> now + vs[i].dur + CleanupTailMs,
      stopAt |-> t + vs[i].stop] :
        i \in {j \in 1..Len(vs) : vs[j].disconnects}}

\* faulty variant: the bar is counted one step late (step > 16)
NextBarLate(s, b) == IF s + 1 > 16 THEN b + 1 ELSE b

\* step++; if (step >= 16) { step = 0; bar++; }
NextStep(s) == IF s + 1 >= 16 THEN 0 ELSE s + 1
NextBar(s, b) == IF s + 1 >= 16 THEN b + 1 ELSE b

\* faulty variant: the interval callback never returns early
SeqInertNever(c) == FALSE

\* the early return of the interval callback
SeqInert(c) == c # "running"

\* a timeout due before the next firing of the interval
DueNow(t) == sequencerInterval # "active" \/ t.due < (ticks + 1) * BeatMs

\* the interval callback, run when the interval fires with ctx.currentTime at t
SeqStep(t) ==
    /\ sequencerInterval = "active"
    /\ \A tm \in noteTimers : ~DueNow(tm)
    /\ ticks' = ticks + 1
    /\ IF SeqInert(audioCtx)
       THEN /\ emitted' = <<>>
            /\ UNCHANGED <<step, bar, noteTimers>>
       ELSE \E melody \in BOOLEAN :
              /\ emitted' = Voices(step, melody)
              /\ noteTimers' = noteTimers \cup CleanupTimers(emitted', ticks' * BeatMs, t)
              /\ step' = NextStep(step)
              /\ bar' = NextBar(step, bar)
    /\ UNCHANGED <<phase, hostVars, allowed, ctxVars, fixedBusVars, rainGain,
                   radioVars, sequencerInterval, clackVars, speedVars>>

\* the sequencer interval fires; the render clock is not followed
SeqTick ==
    /\ ticks < MaxTicks
    /\ SeqStep(currentTime)
    /\ UNCHANGED currentTime

\* the render time that passes over one beat of the wall clock: the whole beat
\* when the context is running at its end, none when it is not
RenderedBeat(c) == IF c = "running" THEN BeatMs ELSE 0

\* the sequencer interval fires; the render clock is followed beat by beat
SeqTickClocked ==
    /\ ticks < MaxClockedTicks
    /\ currentTime' = currentTime + RenderedBeat(audioCtx)
    /\ SeqStep(currentTime')

\* a playNote cleanup timeout fires: osc.disconnect(); gain.disconnect()
CleanupFire ==
    /\ \E t \in noteTimers :
         /\ DueNow(t)
         /\ noteTimers' = noteTimers \ {t}
    /\ UNCHANGED <<phase, hostVars, allowed, currentTime, ctxVars,
                   fixedBusVars, rainGain, radioVars, sequencerInterval, ticks,
                   step, bar, emitted, clackVars, speedVars>>

(***************************************************************************)
(* Rhythm generator timeout, speed logic, unmount.                         *)
(***************************************************************************)
\* the rhythm generator's timeout fires
ClackFire ==
    /\ timeoutId.pending
    /\ PlayClack(audioCtx)
    /\ pendingClacks' = pendingClacks - 1 + Scheduled(timeoutId')
    /\ UNCHANGED <<phase, hostVars, allowed, currentTime, ctxVars,
                   fixedBusVars, rainGain, radioVars, seqVars, speedVars>>

\* faulty variant: the inertia step is not clamped at the target
InertiaOvershoot(speed, target) ==
    IF speed < target THEN speed + FrameInertia * 5
    ELSE IF speed > target THEN speed - FrameInertia * 2
    ELSE speed

\* train inertia: move the current speed towards the target speed
Inertia(speed, target) ==
    IF speed < target THEN Min(target, speed + FrameInertia * 5)
    ELSE IF speed > target THEN Max(target, speed - FrameInertia * 2)
    ELSE speed

\* one animation frame: a sign may pass the camera, then the inertia step
Animate ==
    /\ phase = "mounted"
    /\ \E t \in {targetSpeed} \cup Limits : targetSpeed' = t
    /\ currentSpeed' = Inertia(currentSpeed, targetSpeed')
    /\ UNCHANGED <<phase, hostVars, allowed, currentTime, ctxVars,
                   fixedBusVars, rainGain, radioVars, seqVars, clackVars>>

\* the cleanup of the sequencer effect: clearInterval if an interval was set
ClearSequencer == IF sequencerInterval = "active" THEN "cleared" ELSE sequencerInterval

\* the component unmounts: every effect cleanup runs
Unmount ==
    /\ phase = "mounted"
    /\ phase' = "unmounted"
    /\ ClearClack
    /\ sequencerInterval' = ClearSequencer
    /\ UNCHANGED <<hostVars, allowed, currentTime, ctxVars, fixedBusVars,
                   rainGain, radioVars, ticks, step, bar, emitted, noteTimers,
                   speedVars>>

(***************************************************************************)
(* The copy of the component that App.tsx imports,                         *)
(* src/components/PostSovietTrainView.tsx.  Its audio init effect, radio   *)
(* effect, sequencer, unlockAudio and cleanups read as the ones above; its *)
(* rain effect and its playClack differ, and it has no speed logic.        *)
(***************************************************************************)
\* Math.random() * 300, sampled at its ends
JittersComponents == {0, 299}

\* targetVol = weather === 'rain' ? 0.35 : 0
RainTargetComponents(w) == IF w = "rain" THEN Gain(35, 100) ELSE 0

\* the rain effect, run after the audio init effect of the same commit
RainEffectComponents ==
    IF audioCtx' = "none"
    THEN UNCHANGED rainGain
    ELSE rainGain' = RainTargetComponents(weather')

\* createHit(t, 0.4); createHit(t + 0.14, 0.3)
HitPairComponents ==
    <<CreateHit([n |-> 0, d |-> 1], Gain(4, 10)),
      CreateHit([n |-> HitOffsetMs, d |-> 1], Gain(3, 10))>>

\* setTimeout(playClack, 1600 + Math.random() * 300)
NextDelayComponents(jit) ==
    [pending |-> TRUE, n |-> BaseDelayMs, d |-> 1, jitter |-> jit]

\* playClack() called with the context in state c
PlayClackComponents(c) ==
    IF ClackInert(c)
    THEN /\ timeoutId' = NoTimeout
         /\ hits' = <<>>
    ELSE /\ \E jit \in JittersComponents : timeoutId' = NextDelayComponents(jit)
         /\ hits' = HitPairComponents

\* the rhythm effect's body: playClack() called once by the effect
StartClackComponents(c) ==
    /\ PlayClackComponents(c)
    /\ pendingClacks' = pendingClacks + Scheduled(timeoutId')

\* first commit
MountComponents ==
    /\ phase = "constructed"
    /\ phase' = "mounted"
    /\ UNCHANGED <<hostVars, allowed, currentTime, speedVars>>
    /\ AudioInitEffect
    /\ RadioEffect
    /\ RainEffectComponents
    /\ IF audioEnabled' THEN StartClackComponents(audioCtx') ELSE UNCHANGED clackVars

\* the host toggles isAudioEnabled
SetAudioEnabledComponents ==
    /\ phase = "mounted"
    /\ audioEnabled' = ~audioEnabled
    /\ UNCHANGED <<phase, weather, radioOn, radioFreq, radioVol, allowed,
                   currentTime, speedVars>>
    /\ AudioInitEffect
    /\ RadioEffect
    /\ IF Builds THEN rainGain' = 0 ELSE UNCHANGED rainGain
    /\ IF audioEnabled' THEN StartClackComponents(audioCtx') ELSE ClearClack

\* the host changes the weather: the rain effect re-runs
SetWeatherComponents ==
    /\ phase = "mounted"
    /\ \E w \in Weathers \ {weather} : weather' = w
    /\ UNCHANGED <<phase, audioEnabled, radioOn, radioFreq, radioVol, allowed,
                   currentTime, ctxVars, fixedBusVars, radioVars, seqVars,
                   clackVars, speedVars>>
    /\ RainEffectComponents

\* the rhythm generator's timeout fires
ClackFireComponents ==
    /\ timeoutId.pending
    /\ PlayClackComponents(audioCtx)
    /\ pendingClacks' = pendingClacks - 1 + Scheduled(timeoutId')
    /\ UNCHANGED <<phase, hostVars, allowed, currentTime, ctxVars,
                   fixedBusVars, rainGain, radioVars, seqVars, speedVars>>

(***************************************************************************)
(* Specifications.  Every one starts from Init; each lets the host and    *)
(* the timers that write the part of the state under study act, the rest  *)
(* of the state keeps the value the mount gave it.                         *)
(***************************************************************************)
SmallDial == {InitialFreq, MusicStation, MusicStation + 5}
SmallVolumes == {InitialVol, 10}
\* the dial values one key press on the slider leads to
Neighbours == {radioFreq - 10, radioFreq - 1, radioFreq + 1, radioFreq + 10} \cap Dial

\* lifecycle, context and buses
Next ==
    \/ Mount
    \/ SetAudioEnabled
    \/ SetWeather
    \/ SetRadioOn
    \/ SetRadioFreq(SmallDial)
    \/ SetRadioVol(SmallVolumes)
    \/ UnlockAudio
    \/ SettleOp
    \/ Unmount

Spec == Init /\ [][Next]_vars

\* radio tuning over the whole dial
NextRadio ==
    \/ Mount
    \/ SetAudioEnabled
    \/ SetRadioOn
    \/ SetRadioFreq(Neighbours)
    \/ Unmount

SpecRadio == Init /\ [][NextRadio]_vars

\* music sequencer
NextSeq ==
    \/ Mount
    \/ SetAudioEnabled
    \/ SettleOp
    \/ SeqTick
    \/ CleanupFire
    \/ Unmount

SpecSeq == Init /\ [][NextSeq]_vars

\* rhythm generator and speed
NextClack ==
    \/ Mount
    \/ SetAudioEnabled
    \/ UnlockAudio
    \/ SettleOp
    \/ Animate
    \/ ClackFire
    \/ Unmount

SpecClack == Init /\ [][NextClack]_vars

\* lifecycle on a platform that blocks playback until the first user gesture
InitBlocked == Init /\ ~allowed

SpecBlocked == InitBlocked /\ [][Next]_vars

\* playClack as a unit: the speed it reads is an input of the audio engine,
\* drawn from SpeedInputs (the speed logic itself keeps the speed at 40 or more)
SpeedInputs == {0, 3, 5, 6, 30, InitialSpeed}

InitClackUnit == \E v \in SpeedInputs : InitAt(v)

NextClackUnit ==
    \/ Mount
    \/ SetAudioEnabled
    \/ UnlockAudio
    \/ SettleOp
    \/ ClackFire
    \/ Unmount

SpecClackUnit == InitClackUnit /\ [][NextClackUnit]_vars

\* the host with the copy of the component it imports
NextComponents ==
    \/ MountComponents
    \/ SetAudioEnabledComponents
    \/ SetWeatherComponents
    \/ UnlockAudio
    \/ SettleOp
    \/ ClackFireComponents
    \/ Unmount

SpecComponents == Init /\ [][NextComponents]_vars

\* the radio effect as a unit: the radioFreq prop is a number, drawn here from
\* the dial widened by Overshoot tenths of a MHz on either side (the range
\* input of App.tsx itself keeps the value it passes within the dial)
PropDial == (DialMin - Overshoot)..(DialMax + Overshoot)
PropNeighbours ==
    {radioFreq - 10, radioFreq - 1, radioFreq + 1, radioFreq + 10} \cap PropDial

NextTuningUnit ==
    \/ Mount
    \/ SetAudioEnabled
    \/ SetRadioOn
    \/ SetRadioFreq(PropNeighbours)
    \/ Unmount

SpecTuningUnit == Init /\ [][NextTuningUnit]_vars

\* everything the environment and radio controls of App.tsx can supply: the
\* four weathers, the radio switch, the whole dial and the ten volume marks.
\* The effects that write the bus gains do not read the state of the context;
\* the run starts on a platform that blocks playback.
NextHost ==
    \/ Mount
    \/ SetWeather
    \/ SetRadioOn
    \/ SetRadioFreq(Neighbours)
    \/ SetRadioVol(Volumes)
    \/ Unmount

SpecHost == InitBlocked /\ [][NextHost]_vars

\* music sequencer with the render clock followed
NextClocked ==
    \/ Mount
    \/ SetAudioEnabled
    \/ SettleOp
    \/ SeqTickClocked
    \/ CleanupFire
    \/ Unmount

SpecClocked == Init /\ [][NextClocked]_vars

(***************************************************************************)
(* Properties.                                                             *)
(***************************************************************************)
Built == audioCtx # "none"

\* distance from the dial to the nearest station, tenths of MHz
Distance(f) == Min(Abs(f - 960), Abs(f - 1045))

\* a step in which playClack runs: its timeout fires or the rhythm effect calls it
Fired == ClackFire \/ (Mount /\ audioEnabled') \/ (SetAudioEnabled /\ audioEnabled')

BassCount(vs) == Cardinality({i \in 1..Len(vs) : vs[i].kind = "bass"})

KindCount(vs, k) == Cardinality({i \in 1..Len(vs) : vs[i].kind = k})

\* voices of kind k over the 16 steps of one cycle
RECURSIVE CycleCountFrom(_, _)
CycleCountFrom(k, s) ==
    IF s >= 16 THEN 0 ELSE KindCount(Voices(s, FALSE), k) + CycleCountFrom(k, s + 1)

CycleCount(k) == CycleCountFrom(k, 0)

\* a step that leaves the three radio props as they are, on a built engine
SameRadioProps ==
    /\ Built /\ Built'
    /\ radioOn' = radioOn /\ radioFreq' = radioFreq /\ radioVol' = radioVol

\* the code gives v an end for its source and a disconnection from the graph
SelfDestructs(v) == v.stop > 0 /\ v.disconnects

\* the gain of v starts at 0, goes to a target >= 0 and ends above 0
EnvelopeOK(v) == v.start = 0 /\ v.vol >= 0 /\ v.floor > 0

\* C1: once audioEnabled is false and the context is suspended, the context
\* stays suspended for as long as audioEnabled stays false, whatever click,
\* key press, radio change or weather change happens.
C1_StaysSuspended ==
    [][(~audioEnabled /\ ~audioEnabled' /\ audioCtx = "suspended")
         => audioCtx' = "suspended"]_vars

\* C2: while audioEnabled is true, every firing of playClack leaves a pending
\* timeout behind, also a firing that finds the context not running.
C2_ChainUnbroken ==
    [][(Fired /\ audioEnabled') => timeoutId'.pending]_vars

\* C3: after unmount no callback of the audio engine is pending: the sequencer
\* interval, the rhythm generator's timeout and every note cleanup timeout
\* are cancelled.
C3_NothingPendingAfterTeardown ==
    phase = "unmounted" =>
        /\ sequencerInterval # "active"
        /\ ~timeoutId.pending
        /\ noteTimers = {}

\* C4: a dial at 1.5 MHz or more from the nearest station gives signal quality
\* (music gain target) 0 and static gain target 0.45.
C4_OutOfRange ==
    (Built /\ Distance(radioFreq) >= 15) =>
        /\ radioMusicGain = 0
        /\ radioStaticGain = Gain(45, 100)
        /\ ~dropout

C4_Witness == Built /\ Distance(radioFreq) >= 15 /\ radioFreq = 1000 /\ radioOn

\* C5: a dial exactly on a station (96.0 or 104.5) gives signal quality 1, the
\* dropout branch not taken, and static gain target 0.05.
C5_OnStation ==
    (Built /\ radioFreq \in {960, 1045}) =>
        /\ radioMusicGain = Gain(1, 1)
        /\ radioStaticGain = Gain(5, 100)
        /\ ~dropout

C5_Witness == Built /\ radioFreq = 1045 /\ radioOn

\* C6: without the dropout branch, signal quality does not increase with the
\* distance to the nearest station: of two successive tuning updates inside
\* the capture range, the one at the larger distance has the smaller or equal
\* music gain target.
C6_Monotone ==
    [][(Built /\ Built' /\ ~dropout /\ ~dropout'
         /\ Distance(radioFreq) <= Distance(radioFreq')
         /\ Distance(radioFreq') < 15)
        => radioMusicGain >= radioMusicGain']_vars

C6_Witness ==
    /\ Built /\ ~dropout
    /\ Distance(radioFreq) = 14
    /\ radioMusicGain > 0 /\ radioMusicGain < Gain(1, 10)

\* C7: an executed sequencer step emits exactly one bass note when the step is
\* 0 or 8 and none otherwise, and nothing else emits a bass note; so every
\* group of 8 consecutive steps holds exactly one bass note, on its first step.
C7_OneBassPerGroup ==
    [][IF step' # step
       THEN BassCount(emitted') = (IF step \in {0, 8} THEN 1 ELSE 0)
       ELSE emitted' = emitted \/ BassCount(emitted') = 0]_vars

C7_Witness == step = 9 /\ BassCount(emitted) = 1 /\ ticks > 9

\* C8 as stated: bar grows by exactly 1 and step wraps exactly once over 16
\* consecutive firings of the sequencer interval, here the first 16.
C8_SixteenTimerTicks == ticks = 16 => (bar = 1 /\ step = 0)

\* C8 amended: an interval firing that finds the context running advances the
\* position bar * 16 + step by exactly one, with step kept in 0..15; a firing
\* that finds it not running, and every other step, leaves step and bar alone.
C8_SixteenExecutedTicks ==
    [][IF ticks' # ticks /\ audioCtx = "running"
       THEN /\ bar' * 16 + step' = bar * 16 + step + 1
            /\ step' \in 0..15
       ELSE step' = step /\ bar' = bar]_vars

C8_Witness == bar = 1 /\ step = 0 /\ ticks = 17

\* C9: a firing that emits hits places the second hit 0.14 s / speedRatio after
\* the first, speedRatio being the speed read at the firing over 60: 0.14 s at
\* 60 km/h, 0.07 s at 120 km/h.
C9_HitOffset ==
    [][(Fired /\ hits' # <<>>) =>
        LET a == hits'[1].at
            b == hits'[2].at
        IN /\ Len(hits') = 2
           /\ a.d > 0 /\ b.d > 0
           /\ (b.n * a.d - a.n * b.d) * currentSpeed = 140 * 60 * (a.d * b.d)
           /\ (currentSpeed = 60 => b.n * a.d - a.n * b.d = 140 * (a.d * b.d))
           /\ (currentSpeed = 120 => b.n * a.d - a.n * b.d = 70 * (a.d * b.d))]_vars

C9_Witness ==
    /\ Len(hits) = 2
    /\ hits[1].at.n = 0
    /\ hits[2].at.n = 70 * hits[2].at.d
    /\ currentSpeed = 120

\* C10: a firing that finds the context running and speedRatio < 0.1 creates no
\* hit and sets the next timeout to exactly 1000 ms, without jitter.
C10_SlowPoll ==
    [][(Fired /\ audioCtx' = "running" /\ 10 * currentSpeed < 60) =>
        /\ hits' = <<>>
        /\ timeoutId'.pending
        /\ timeoutId'.n = 1000 * timeoutId'.d
        /\ timeoutId'.jitter = 0]_vars

C10_Witness ==
    /\ audioCtx = "running"
    /\ currentSpeed = 5
    /\ timeoutId.pending /\ timeoutId.n = 1000 /\ timeoutId.d = 1
    /\ hits = <<>>

\* C11: with weather rain, the radio on, the dial on 96.0 and the volume 0.5
\* pushed into a built engine, the rain gain target is 0.35, the radio master
\* gain target 0.5, the music gain target 1 and the static gain target 0.05.
C11_EndToEnd ==
    (Built /\ weather = "rain" /\ radioOn /\ radioFreq = 960 /\ radioVol = 5) =>
        /\ rainGain = Gain(35, 100)
        /\ radioMasterGain = Gain(5, 10)
        /\ radioMusicGain = Gain(1, 1)
        /\ radioStaticGain = Gain(5, 100)

C11_Witness ==
    /\ Built /\ weather = "rain" /\ radioOn /\ radioFreq = 960 /\ radioVol = 5
    /\ rainGain = 2100 /\ radioMasterGain = 3000
    /\ radioMusicGain = 6000 /\ radioStaticGain = 300

\* C12: whenever the audio graph is built, the rain gain target is the value
\* of the current weather: 0.35 for rain, 0.05 for snow, 0 for clear and
\* cloudy, whatever the order of enabling audio and changing the weather.
C12_RainFollowsWeather ==
    Built =>
        rainGain = (IF weather = "rain" THEN Gain(35, 100)
                    ELSE IF weather = "snow" THEN Gain(5, 100)
                    ELSE 0)

C14_Idempotent ==
    [][SameRadioProps =>
        /\ radioMasterGain' = radioMasterGain
        /\ radioStaticGain' = radioStaticGain
        /\ radioMusicGain' = radioMusicGain
        /\ radioFilter' = radioFilter]_vars

\* C14 amended: such a run yields the same radio master target and the same
\* filter drift magnitude, and the same static and music targets when the two
\* runs agree on the dropout draw; the drift sign and the dropout are redrawn.
C14_IdempotentUpToDraws ==
    [][SameRadioProps =>
        /\ radioMasterGain' = radioMasterGain
        /\ Abs(radioFilter' - FilterBase) = Abs(radioFilter - FilterBase)
        /\ (dropout' = dropout =>
              /\ radioStaticGain' = radioStaticGain
              /\ radioMusicGain' = radioMusicGain)]_vars

C14_Witness ==
    /\ Built /\ ~audioEnabled /\ radioOn
    /\ radioFreq = MusicStation + 5
    /\ dropout /\ radioFilter < FilterBase

\* C15: the gain envelope of every voice the engine creates (sequencer note,
\* kick, snare or hi-hat noise burst, clack hit) starts at 0, ramps to a
\* non-negative target and ramps back towards, never exactly to, 0.
C15_EnvelopeFromZero ==
    /\ \A i \in 1..Len(emitted) : EnvelopeOK(emitted[i])
    /\ \A i \in 1..Len(hits) : EnvelopeOK(hits[i])

\* C16: every bus gain value and automation target (Master, Rumble, Rain,
\* RadioMaster, RadioStatic, RadioMusic) lies in [0, 1], for every weather,
\* radio switch position, dial frequency and radio volume of the host.
C16_GainsInUnitRange ==
    \A g \in {masterGain, rumbleGain, rainGain,
               radioMasterGain, radioStaticGain, radioMusicGain} :
        g >= 0 /\ g <= Unity

C16_Witness ==
    /\ Built /\ radioOn /\ radioVol = 10 /\ radioMasterGain = Unity
    /\ weather = "rain" /\ rainGain = Gain(35, 100)
    /\ radioFreq = InitialFreq /\ radioStaticGain = Gain(45, 100)

\* C17: while audioEnabled is true and the platform keeps the context
\* suspended, the engine stays inert but pending: the graph, the sequencer
\* interval and the rhythm generator's timeout are kept, so that a resume
\* obtained by a later click or key press finds them.
C17_InertButPending ==
    (phase = "mounted" /\ audioEnabled /\ ~allowed /\ audioCtx = "suspended") =>
        /\ Built
        /\ sequencerInterval = "active"
        /\ timeoutId.pending

\* C18: every voice the sequencer or the rhythm generator creates has a finite
\* deadline of its own and is disconnected from the graph by the engine.
C18_SelfDestruct ==
    /\ \A i \in 1..Len(emitted) : SelfDestructs(emitted[i])
    /\ \A i \in 1..Len(hits) : SelfDestructs(hits[i])

\* C19: a firing of the sequencer interval that finds the context not running
\* creates no voice, sets no timeout and leaves step and bar unchanged; a
\* firing that finds it running plays the step the last executed firing left.
C19_SuspendedTickNoOp ==
    [][ticks' # ticks =>
        IF audioCtx # "running"
        THEN /\ emitted' = <<>>
             /\ step' = step /\ bar' = bar
             /\ noteTimers' = noteTimers
        ELSE /\ \E melody \in BOOLEAN : emitted' = Voices(step, melody)
             /\ step' = (step + 1) % 16]_vars

C19_Witness ==
    /\ ~audioEnabled /\ audioCtx = "suspended"
    /\ emitted = <<>> /\ step = 1 /\ bar = 0 /\ ticks >= 3

\* C20 as stated: after a firing that emits hits the next delay is
\* 1600 ms / speedRatio plus a jitter of at most 100 ms in either direction.
C20_JitterWithin100 ==
    [][(Fired /\ hits' # <<>>) =>
        /\ timeoutId'.pending
        /\ timeoutId'.n * currentSpeed = 1600 * 60 * timeoutId'.d
        /\ timeoutId'.jitter \in -100..100]_vars

\* C20 amended: the next delay is 1600 ms / speedRatio, speedRatio from the
\* speed read at that firing, plus a jitter of at least 0 and less than 200 ms.
C20_JitterBelow200 ==
    [][(Fired /\ hits' # <<>>) =>
        /\ timeoutId'.pending
        /\ timeoutId'.n * currentSpeed = 1600 * 60 * timeoutId'.d
        /\ timeoutId'.jitter \in 0..199]_vars

C20_Witness ==
    /\ hits # <<>> /\ timeoutId.pending
    /\ currentSpeed = 120
    /\ timeoutId.n = 800 * timeoutId.d
    /\ timeoutId.jitter = 199

\* C21: at a distance d < 1.5 from the nearest station the music gain target
\* of a tuning update is q = 1 - d/1.5 or q/2, q/2 only when q < 0.8, and the
\* static gain target of the same update is (1 - music) * 0.4 + 0.05.
C21_QualityOrHalf ==
    LET q == Unity - (Distance(radioFreq) * Unity) \div 15
    IN (Built /\ Distance(radioFreq) < 15) =>
           /\ radioMusicGain \in {q, q \div 2}
           /\ (radioMusicGain # q => q < Gain(8, 10))
           /\ 10 * (radioStaticGain - Gain(5, 100)) = 4 * (Unity - radioMusicGain)

C21_Witness ==
    /\ Built /\ dropout /\ Distance(radioFreq) = 5
    /\ radioMusicGain = Gain(1, 3) /\ radioStaticGain = 1900

\* C22: for every dial frequency in [88.0, 108.0] the target centre frequency
\* written to the radio bandpass filter lies between 400 Hz and 3000 Hz.
C22_FilterRange ==
    (Built /\ radioFreq \in Dial) => (radioFilter >= 400 /\ radioFilter <= 3000)

\* C23: an executed sequencer tick emits a kick iff step % 4 = 0, a snare burst
\* iff step % 4 = 2, never both, and a hi-hat tick iff step is even; a cycle of
\* 16 steps so holds exactly 4 kicks, 4 snares and 8 hi-hats.
C23_Drums ==
    [][step' # step =>
        /\ KindCount(emitted', "kick") = (IF step % 4 = 0 THEN 1 ELSE 0)
        /\ KindCount(emitted', "snare") = (IF step % 4 = 2 THEN 1 ELSE 0)
        /\ KindCount(emitted', "kick") + KindCount(emitted', "snare") <= 1
        /\ KindCount(emitted', "hat") = (IF step % 2 = 0 THEN 1 ELSE 0)
        /\ CycleCount("kick") = 4
        /\ CycleCount("snare") = 4
        /\ CycleCount("hat") = 8]_vars

C23_Witness ==
    /\ step = 3 /\ bar = 0
    /\ KindCount(emitted, "snare") = 1 /\ KindCount(emitted, "hat") = 1
    /\ KindCount(emitted, "kick") = 0

\* C24: the reverb send is used only by melody voices: every melody note is
\* connected to the reverb, no bass note, kick or noise burst ever is.
C24_ReverbOnlyMelody ==
    \A i \in 1..Len(emitted) : emitted[i].reverb <=> emitted[i].kind = "melody"

C24_Witness ==
    /\ step = 1
    /\ KindCount(emitted, "bass") = 1 /\ KindCount(emitted, "melody") = 1
    /\ KindCount(emitted, "kick") = 1 /\ KindCount(emitted, "hat") = 1

\* C25: the disconnect callback of a note voice runs only after the render
\* clock has reached the oscillator's scheduled stop (start + dur + 0.1 s), in
\* every interleaving of suspend and resume with the cleanup timer.
C25_DisconnectAfterStop ==
    [][phase = "mounted" =>
         \A tm \in noteTimers \ noteTimers' : currentTime >= tm.stopAt]_vars

\* C26: each bus parameter has a single writer: a weather change writes only the
\* rain-bus gain target; a radio on/off, frequency or volume change writes only
\* the radio-master, radio-static and radio-music gain targets and the radio
\* filter frequency; the Master and Rumble gains are never written once the
\* graph is built.
C26_SingleWriter ==
    [][/\ weather' # weather => UNCHANGED <<fixedBusVars, radioVars>>
       /\ <<radioOn, radioFreq, radioVol>>' # <<radioOn, radioFreq, radioVol>> =>
             UNCHANGED <<fixedBusVars, rainGain>>
       /\ Built => UNCHANGED fixedBusVars]_vars

\* C26 witness: after weather and radio changes on the built graph the rain bus
\* and the radio buses hold their own targets, Master and Rumble their build values
C26_Witness ==
    /\ Built
    /\ phase = "mounted"
    /\ weather = "rain"
    /\ rainGain = Gain(35, 100)
    /\ radioOn
    /\ radioMasterGain = Gain(5, 10)
    /\ masterGain = Gain(5, 10)
    /\ rumbleGain = Gain(3, 10)

\* C27: across any sequence of audioEnabled toggles the graph is built at most
\* once and exactly one sequencer interval exists from the build until
\* teardown: no step from a built graph builds again (the fixed buses are not
\* rewritten, the sequencer's tick count, step and bar are not reset), the graph
\* stays built, and while the component is mounted its interval stays active.
C27_BuiltOnce ==
    [][Built => /\ Built'
                /\ UNCHANGED fixedBusVars
                /\ ticks' >= ticks
                /\ ticks' = ticks => UNCHANGED <<step, bar>>
                /\ sequencerInterval = IF phase = "mounted" THEN "active" ELSE "cleared"
                /\ sequencerInterval' = IF phase' = "mounted" THEN "active" ELSE "cleared"]_vars

\* C27 witness: audio disabled and the suspend settled after two played beats,
\* the graph and the interval still there and two further ticks gone by
C27_Witness ==
    /\ phase = "mounted"
    /\ ~audioEnabled
    /\ audioCtx = "suspended"
    /\ pendingOps = <<>>
    /\ sequencerInterval = "active"
    /\ masterGain = Gain(5, 10)
    /\ step = 2
    /\ ticks = 4

\* C28: after any sequence of audioEnabled toggles, once every in-flight suspend
\* and resume request has settled and the platform permits playback, the
\* context is running if and only if audioEnabled is true.
C28_SettledMatchesEnabled ==
    (phase = "mounted" /\ Built /\ allowed /\ pendingOps = <<>>) =>
        (audioCtx = "running" <=> audioEnabled)

\* C29: the rhythm generator has at most one pending timeout at every moment,
\* whatever the number of audioEnabled toggles, and while audio is disabled no
\* rhythm-generator timeout is pending.
C29_OneChain ==
    /\ pendingClacks <= 1
    /\ pendingClacks = Scheduled(timeoutId)
    /\ ~audioEnabled => pendingClacks = 0

\* C29 witness: audio re-enabled on a running context after a disable that
\* cleared the chain: one timeout pending
C29_Witness ==
    /\ phase = "mounted"
    /\ audioEnabled
    /\ audioCtx = "running"
    /\ pendingOps = <<"suspend">>
    /\ pendingClacks = 1
    /\ timeoutId.pending

\* the speed is within the limits and above playClack's slow threshold
SpeedInRange ==
    /\ currentSpeed >= 40
    /\ currentSpeed <= 120
    /\ targetSpeed \in Limits
    /\ ~TooSlow(SpeedRatio(currentSpeed))

\* a step that changes the speed moves it towards the target and not past it
TowardsTarget ==
    currentSpeed' # currentSpeed =>
        \/ currentSpeed < currentSpeed' /\ currentSpeed' <= targetSpeed'
        \/ currentSpeed > currentSpeed' /\ currentSpeed' >= targetSpeed'

\* C30: the current speed stays within [40, 120]: it starts at 60 and every
\* frame moves it towards a target in {40, 60, 80, 100, 120} without passing
\* it, so the speedRatio playClack reads is never below 0.1.
C30_SpeedRange ==
    /\ currentSpeed = 60
    /\ []SpeedInRange
    /\ [][TowardsTarget]_vars

\* C30 witness: the speed has come down to the lowest limit and playClack has
\* run on it
C30_Witness ==
    /\ currentSpeed = 40
    /\ targetSpeed = 40
    /\ hits # <<>>
    /\ timeoutId.pending

====
